---- MODULE Spec2Model ----
(***************************************************************************)
(* Model of bot.py: a loop that polls eth_getBalance over JSON-RPC every   *)
(* ten seconds and prints one line per poll.                               *)
(*                                                                         *)
(* Text is a sequence of one-character strings where the code inspects it  *)
(* (the `result` field handed to int(result, 16)) and a TLA+ string where  *)
(* the code only builds it (the printed line).  Python integers are        *)
(* unbounded, so they are little-endian sequences of limbs in base 4096;   *)
(* the float that int / 10**18 yields is a mantissa (a limb sequence of at *)
(* most 53 bits) and a binary exponent.                                    *)
(*                                                                         *)
(* print is taken to succeed (line 30 has printed a line of the same kind  *)
(* before the first poll) and the process is not killed from outside.      *)
(* Time passes only inside requests.post and time.sleep.                   *)
(***************************************************************************)
EXTENDS Integers, Sequences, FiniteSets, TLC

(***************************************************************************)
(* Unbounded naturals: <<>> is 0, the last limb is never 0.                *)
(***************************************************************************)
Base == 4096
LimbBits == 12

RECURSIVE Pow2(_)
Pow2(k) == IF k = 0 THEN 1 ELSE 2 * Pow2(k - 1)

\* drop the zero limbs at the top
Norm(n) ==
    LET top == {i \in 1..Len(n) : n[i] # 0}
    IN  IF top = {} THEN <<>>
        ELSE SubSeq(n, 1, CHOOSE i \in top : \A j \in top : j <= i)

\* the carry into limb i of n * k + c
RECURSIVE CarryIn(_, _, _, _)
CarryIn(n, k, c, i) ==
    IF i = 1 THEN c
    ELSE LET below == CarryIn(n, k, c, i - 1)
         IN  ((IF i - 1 <= Len(n) THEN n[i - 1] * k ELSE 0) + below) \div Base

\* n * k + c for a small k and a small carry c (k, c < 2^18)
MulSmall(n, k, c) ==
    Norm([i \in 1..(Len(n) + 2) |->
            ((IF i <= Len(n) THEN n[i] * k ELSE 0) + CarryIn(n, k, c, i)) % Base])

\* the remainder by k of the limbs i..Len(n) of n, taken as a number
RECURSIVE RemFrom(_, _, _)
RemFrom(n, k, i) ==
    IF i > Len(n) THEN 0 ELSE (RemFrom(n, k, i + 1) * Base + n[i]) % k

\* quotient and remainder of n by a small k (k < 2^18)
DivSmall(n, k) ==
    [q |-> Norm([i \in 1..Len(n) |-> (RemFrom(n, k, i + 1) * Base + n[i]) \div k]),
     r |-> RemFrom(n, k, 1)]

RECURSIVE SmallBitLen(_)
SmallBitLen(v) == IF v = 0 THEN 0 ELSE 1 + SmallBitLen(v \div 2)

BitLen(n) == IF n = <<>> THEN 0
             ELSE LimbBits * (Len(n) - 1) + SmallBitLen(n[Len(n)])

\* n * 2^s: whole limbs of zeros, then each limb takes the high bits of the
\* limb below it
ShiftLeft(n, s) ==
    LET b  == s % LimbBits
        hi == Pow2(LimbBits - b)
        L(i) == IF 1 <= i /\ i <= Len(n) THEN n[i] ELSE 0
    IN  IF n = <<>> THEN <<>>
        ELSE [i \in 1..(s \div LimbBits) |-> 0]
             \o Norm([i \in 1..(Len(n) + 1) |->
                        (L(i) % hi) * Pow2(b) + L(i - 1) \div hi])

\* floor(n / 2^s) and whether any of the s bits shifted out was set
ShiftRight(n, s) ==
    LET drop == IF s \div LimbBits < Len(n) THEN s \div LimbBits ELSE Len(n)
        b    == s % LimbBits
        lo   == Pow2(b)
        L(i) == IF i <= Len(n) THEN n[i] ELSE 0
    IN  [q |-> Norm([i \in 1..(Len(n) - drop) |->
                       L(i + drop) \div lo
                       + (L(i + drop + 1) % lo) * Pow2(LimbBits - b)]),
         sticky |-> (drop < Len(n) /\ n[drop + 1] % lo # 0)
                    \/ (\E i \in 1..drop : n[i] # 0)]

IsOdd(n) == n # <<>> /\ n[1] % 2 = 1

\* -1, 0 or 1 as a < b, a = b, a > b
Cmp(a, b) ==
    IF Len(a) # Len(b) THEN (IF Len(a) < Len(b) THEN -1 ELSE 1)
    ELSE LET diff == {i \in 1..Len(a) : a[i] # b[i]}
         IN  IF diff = {} THEN 0
             ELSE LET i == CHOOSE i \in diff : \A j \in diff : j <= i
                  IN  IF a[i] < b[i] THEN -1 ELSE 1

\* the borrow into limb i of a - b
RECURSIVE BorrowIn(_, _, _)
BorrowIn(a, b, i) ==
    IF i = 1 THEN 0
    ELSE IF a[i - 1] - (IF i - 1 <= Len(b) THEN b[i - 1] ELSE 0)
               - BorrowIn(a, b, i - 1) < 0
    THEN 1 ELSE 0

\* a - b for a >= b
Sub(a, b) ==
    Norm([i \in 1..Len(a) |->
            (a[i] - (IF i <= Len(b) THEN b[i] ELSE 0) - BorrowIn(a, b, i) + Base) % Base])

\* round to the nearest integer, ties to even: floor2 is the floor of twice
\* the value, sticky whether anything below that was discarded
RoundHalfEven(floor2, sticky) ==
    LET Round(half) ==
            IF half.sticky /\ (sticky \/ IsOdd(half.q))
            THEN MulSmall(half.q, 1, 1)
            ELSE half.q
    IN  Round(ShiftRight(floor2, 1))

(***************************************************************************)
(* int(result, 16), bot.py line 22.  A literal is white space, an optional *)
(* sign, an optional 0x or 0X, hex digits with single underscores between  *)
(* them (one is also allowed right after the prefix), white space.         *)
(***************************************************************************)
LowerHex == <<"0", "1", "2", "3", "4", "5", "6", "7",
              "8", "9", "a", "b", "c", "d", "e", "f">>
UpperHex == <<"A", "B", "C", "D", "E", "F">>

HexVal(c) == IF \E i \in 1..16 : LowerHex[i] = c
             THEN (CHOOSE i \in 1..16 : LowerHex[i] = c) - 1
             ELSE IF \E i \in 1..6 : UpperHex[i] = c
             THEN (CHOOSE i \in 1..6 : UpperHex[i] = c) + 9
             ELSE -1

IsHexDigit(c) == HexVal(c) >= 0

\* white space, and the characters a literal is made of
SpaceChars == {" "}
LiteralChars ==
    {LowerHex[i] : i \in 1..16} \cup {UpperHex[i] : i \in 1..6} \cup {"_"}

\* s without its first k characters
Drop(s, k) == SubSeq(s, k + 1, Len(s))

\* the number of characters at the front of s that are in chars
FrontRun(s, chars) ==
    LET stop == {i \in 1..Len(s) : s[i] \notin chars}
    IN  IF stop = {} THEN Len(s)
        ELSE (CHOOSE i \in stop : \A j \in stop : i <= j) - 1

LStrip(s) == Drop(s, FrontRun(s, SpaceChars))

\* the value of a sequence of hex digits: three digits to a limb
HexLimbs(ds) ==
    LET D(j) == IF j >= 1 THEN HexVal(ds[j]) ELSE 0
    IN  Norm([i \in 1..((Len(ds) + 2) \div 3) |->
                D(Len(ds) - 3 * (i - 1))
                + 16 * D(Len(ds) - 3 * (i - 1) - 1)
                + 256 * D(Len(ds) - 3 * (i - 1) - 2)])

\* the digits of a literal, after the sign and the prefix
\* run is the digits and underscores at the front, rest what follows them
ScanDigits(s) ==
    LET Scan(run, rest) ==
            [ok  |-> /\ \E i \in 1..Len(run) : IsHexDigit(run[i])
                     /\ run[1] # "_"
                     /\ run[Len(run)] # "_"
                     /\ \A i \in 1..(Len(run) - 1) :
                            ~(run[i] = "_" /\ run[i + 1] = "_")
                     /\ FrontRun(rest, SpaceChars) = Len(rest),
             mag |-> HexLimbs(SelectSeq(run, IsHexDigit))]
    IN  Scan(SubSeq(s, 1, FrontRun(s, LiteralChars)),
             Drop(s, FrontRun(s, LiteralChars)))

HasPrefix(s) == Len(s) >= 2 /\ s[1] = "0" /\ s[2] \in {"x", "X"}

ParseUnsigned(s) ==
    ScanDigits(IF HasPrefix(s)
               THEN (IF Len(s) >= 3 /\ s[3] = "_" THEN Drop(s, 3) ELSE Drop(s, 2))
               ELSE s)

HasSign(t) == t # <<>> /\ t[1] \in {"+", "-"}

\* int(s, 16) for a str s: [ok, neg, mag]; ok = FALSE is the ValueError
ParseInt16(s) ==
    LET Signed(t, u) ==
            [ok  |-> u.ok,
             neg |-> u.ok /\ HasSign(t) /\ t[1] = "-" /\ u.mag # <<>>,
             mag |-> IF u.ok THEN u.mag ELSE <<>>]
        Parse(t) == Signed(t, ParseUnsigned(IF HasSign(t) THEN Drop(t, 1) ELSE t))
    IN  Parse(LStrip(s))

(***************************************************************************)
(* int / 10**18, bot.py line 22: Python's true division of two integers    *)
(* yields the double nearest to the exact quotient (ties to even), and     *)
(* raises OverflowError when that is too large for a double.               *)
(***************************************************************************)
MantissaBits == 53
MaxExponent == 1024

\* x.q divided by a small k, sticky once a division has left a remainder
DivSticky(x, k) ==
    LET Out(d) == [q |-> d.q, sticky |-> x.sticky \/ d.r # 0]
    IN  Out(DivSmall(x.q, k))

\* floor(n / 10**18) and whether the division left a remainder
DivWei(n) ==
    DivSticky(DivSticky(DivSticky(DivSticky([q |-> n, sticky |-> FALSE],
        100000), 100000), 100000), 1000)

\* the double m * 2^e nearest to n / 10**18, for n > 0: n is scaled by 2^s
\* to give a quotient Q of 64 bits or more, of which the top 54 bits are
\* kept (sh are shifted out) and rounded to 53
TrueDiv(n) ==
    LET Out(s, sh, m) ==
            [m |-> m, e |-> sh + 1 - s,
             overflow |-> BitLen(m) + (sh + 1 - s) > MaxExponent]
        Round(s, Q, sh, R) ==
            Out(s, sh, RoundHalfEven(R.q, Q.sticky \/ R.sticky))
        Shift(s, Q, sh) == Round(s, Q, sh, ShiftRight(Q.q, sh))
        Divide(s, Q) == Shift(s, Q, BitLen(Q.q) - (MantissaBits + 1))
        Scale(s) == Divide(s, DivWei(ShiftLeft(n, s)))
    IN  Scale(IF BitLen(n) < MantissaBits + 63
              THEN MantissaBits + 63 - BitLen(n) ELSE 0)

(***************************************************************************)
(* f"{balance:.5f}", bot.py line 23: the exact value of the double rounded *)
(* to 5 fractional digits, ties to even.                                   *)
(***************************************************************************)
FracDigits == 5

DigitChar(d) == LowerHex[d + 1]

\* the decimal digits of a small v, and v zero-padded to a width
RECURSIVE SmallDec(_)
SmallDec(v) == IF v < 10 THEN DigitChar(v)
               ELSE SmallDec(v \div 10) \o DigitChar(v % 10)

RECURSIVE PadDec(_, _)
PadDec(v, width) == IF width = 0 THEN ""
                    ELSE PadDec(v \div 10, width - 1) \o DigitChar(v % 10)

\* the decimal digits of n > 0, four at a time from the low end
RECURSIVE DecText(_)
DecText(n) ==
    LET Text(d) == IF d.q = <<>> THEN SmallDec(d.r)
                   ELSE DecText(d.q) \o PadDec(d.r, 4)
    IN  Text(DivSmall(n, 10000))

\* units of 10^-5 shown for the double m * 2^e
Units5(m, e) ==
    LET Round(r) == RoundHalfEven(r.q, r.sticky)
        Scaled(M) == IF e >= 0 THEN ShiftLeft(M, e)
                     ELSE Round(ShiftRight(M, (-e) - 1))
    IN  Scaled(MulSmall(m, 100000, 0))

FixedText(neg, units) ==
    LET Text(d) == (IF neg THEN "-" ELSE "")
                   \o (IF d.q = <<>> THEN "0" ELSE DecText(d.q))
                   \o "." \o PadDec(d.r, FracDigits)
    IN  Text(DivSmall(units, 100000))

(***************************************************************************)
(* The configuration, bot.py lines 6 to 8, and the request of lines 12 to  *)
(* 19.                                                                     *)
(***************************************************************************)
RPC_URL == "https://polygon-rpc.com"
ADDRESS == "0x1efD4DB8b7bFe247C75323dAE62B95f24b1cBAAfU"
TIMEOUT == 10
SLEEP == 10

payload == [jsonrpc |-> "2.0", method |-> "eth_getBalance",
            params |-> <<ADDRESS, "latest">>, id |-> 1]

None == [t |-> "None"]
NoTime == -1

(***************************************************************************)
(* What the node can answer.  A JSON value is [t, b, n, s]: its type, and  *)
(* its truth value, its number (or its length, for a list) or its          *)
(* characters.                                                             *)
(***************************************************************************)
JNull      == [t |-> "null", b |-> FALSE, n |-> 0, s |-> <<>>]
JBool(b)   == [t |-> "bool", b |-> b,     n |-> 0, s |-> <<>>]
JInt(n)    == [t |-> "int",  b |-> FALSE, n |-> n, s |-> <<>>]
JList(len) == [t |-> "list", b |-> FALSE, n |-> len, s |-> <<>>]
JStr(s)    == [t |-> "str",  b |-> FALSE, n |-> 0, s |-> s]

Hex1e18 == <<"0", "x", "d", "e", "0", "b", "6", "b", "3", "a", "7", "6", "4", "0", "0", "0", "0">>
HexOneWei == <<"0", "x", "1">>
HexMinusOneWei == <<"-", "0", "x", "1">>
HexMinus1e18 == <<"-", "0", "x", "d", "e", "0", "b", "6", "b", "3", "a", "7", "6", "4", "0", "0", "0", "0">>
HexTiePlusOne == <<"0", "x", "3", "7", "8", "2", "d", "a", "c", "e", "9", "d", "9", "0", "0", "1">>
HexTie == <<"0", "x", "4", "8", "c", "2", "7", "3", "9", "5", "0", "0", "0">>
HexBig == <<"0", "x", "1", "7", "c", "6", "e", "3", "b", "f", "d", "7", "0", "f", "d", "e", "d", "e", "6", "a", "6", "d", "6", "0", "e", "c", "7", "8", "0", "0", "0", "0">>
HexBare == <<"f", "f">>
HexSpaced == <<" ", "0", "x", "1", "f", " ">>
HexUnderscore == <<"0", "x", "_", "1", "f">>
HexPlus == <<"+", "0", "X", "1", "0">>
HexNoDigits == <<"0", "x">>
HexNotHex == <<"z", "z">>
HexDoubleUnderscore == <<"0", "x", "1", "_", "_", "f">>

MaxHexLen == 2
FamilyDigits == {"0", "f"}

\* 0x followed by 1 to MaxHexLen digits
HexFamily ==
    UNION {{<<"0", "x">> \o d : d \in [1..k -> FamilyDigits]} : k \in 1..MaxHexLen}

ResultStrings ==
    {<<>>, Hex1e18, HexOneWei, HexMinusOneWei, HexMinus1e18, HexTiePlusOne, HexTie, HexBig,
     HexBare, HexSpaced, HexUnderscore, HexPlus, HexNoDigits, HexNotHex, HexDoubleUnderscore}
    \cup HexFamily

ResultValues ==
    {JNull, JBool(FALSE), JBool(TRUE), JInt(0), JInt(5), JList(0), JList(1)}
    \cup {JStr(s) : s \in ResultStrings}

\* an exception: its class and str(e)
Exc(cls, msg) == [t |-> "exc", cls |-> cls, msg |-> msg]

\* requests.post either raises or returns a response whose body is text
\* that is not JSON, a JSON array, or a JSON object with or without `result`
Raises(e) == [raises |-> e, body |-> "", hasResult |-> FALSE, result |-> JNull]
Body(kind, hasResult, v) ==
    [raises |-> None, body |-> kind, hasResult |-> hasResult, result |-> v]

TransportErrors ==
    {Exc("ConnectionError", "Max retries exceeded: connection refused"),
     Exc("ReadTimeout", "Read timed out. (read timeout=10)")}

Responses ==
    {Raises(e) : e \in TransportErrors}
    \cup {Body("text", FALSE, JNull), Body("array", FALSE, JNull),
          Body("object", FALSE, JNull)}
    \cup {Body("object", TRUE, v) : v \in ResultValues}

\* seconds a request can take: the timeout bounds each wait for the peer
Latencies == {0, TIMEOUT \div 2, TIMEOUT}

\* local times of day, in seconds, that time.strftime can read
SecondsPerDay == 86400
WallClock == {3723, SecondsPerDay - 1}

(***************************************************************************)
(* The process, bot.py lines 29 to 33.                                     *)
(*                                                                         *)
(* pc        where the process is: "banner" (line 30 not yet run), "loop"  *)
(*           (line 32, about to call get_balance), "post" (inside          *)
(*           requests.post, line 19), "sleep" (inside time.sleep, line     *)
(*           33), "crashed" (an exception left get_balance), "exit" (the   *)
(*           loop ended)                                                   *)
(* stdout    the lines written since the latest call of get_balance began  *)
(*           (before the first call: since the process began)              *)
(* request   the latest request handed to requests.post                    *)
(* response  what requests.post produced in the latest call, None while    *)
(*           it has not returned                                           *)
(* balance   the local `balance` of the latest call, None when line 22     *)
(*           did not assign it                                             *)
(* clock     the local time of day line 23 read in the latest call         *)
(* latency   the seconds the latest completed requests.post took           *)
(* sincePost the seconds since requests.post was last entered              *)
(* slept     the seconds slept since get_balance last returned             *)
(* issued    the requests issued in the current iteration of the loop      *)
(* While a request is in flight (NoTime and "none" otherwise, and in the   *)
(* first call):                                                            *)
(* gap       the seconds between this entry of requests.post and the one   *)
(*           before                                                        *)
(* waited    the value of slept when requests.post was entered             *)
(* previous  the outcome of the call before this one                       *)
(* ref       a successful poll kept for comparison: its `result`, the      *)
(*           amount printed for it, and whether a later call has begun     *)
(***************************************************************************)
VARIABLES pc, stdout, request, response, balance, clock, latency, sincePost,
          slept, gap, waited, issued, previous, ref

vars == <<pc, stdout, request, response, balance, clock, latency, sincePost,
          slept, gap, waited, issued, previous, ref>>

(***************************************************************************)
(* get_balance, bot.py lines 11 to 27.                                     *)
(***************************************************************************)
\* the class hierarchy that `except Exception` consults
Parent(cls) ==
    CASE cls \in {"ConnectionError", "ReadTimeout"} -> "RequestException"
      [] cls = "RequestException" -> "OSError"
      [] cls = "JSONDecodeError" -> "ValueError"
      [] cls \in {"OSError", "ValueError", "TypeError", "AttributeError",
                  "ArithmeticError"} -> "Exception"
      [] cls = "OverflowError" -> "ArithmeticError"
      [] cls \in {"Exception", "KeyboardInterrupt"} -> "BaseException"
      [] OTHER -> "object"

RECURSIVE IsSubclass(_, _)
IsSubclass(cls, base) ==
    cls = base \/ (cls # "object" /\ IsSubclass(Parent(cls), base))

\* as if line 26 read: except requests.RequestException as e
CaughtRequestsOnly(e) == IsSubclass(e.cls, "RequestException")

\* line 26: except Exception as e
Caught(e) == IsSubclass(e.cls, "Exception")

\* as if line 21 read: if result is not None
TruthyNotNone(v) == v.t # "null"

\* line 21: if result
Truthy(v) ==
    CASE v.t = "null" -> FALSE
      [] v.t = "bool" -> v.b
      [] v.t = "int"  -> v.n # 0
      [] v.t = "list" -> v.n # 0
      [] v.t = "str"  -> v.s # <<>>

RECURSIVE JoinFrom(_, _)
JoinFrom(s, i) == IF i > Len(s) THEN "" ELSE s[i] \o JoinFrom(s, i + 1)
Join(s) == JoinFrom(s, 1)

\* time.strftime('%H:%M:%S') at t seconds after local midnight
Strftime(t) ==
    PadDec(t \div 3600, 2) \o ":" \o PadDec((t \div 60) % 60, 2)
    \o ":" \o PadDec(t % 60, 2)

\* a printed line is its parts in order: the leading symbol, literal text,
\* and the interpolated time, amount or error
Part(k, v) == [k |-> k, v |-> v]

\* as if line 23 printed no time
SuccessLineNoTime(now, amount) ==
    <<Part("marker", "check mark"), Part("text", "Saldo:"),
      Part("amount", amount), Part("text", "ETH/MATIC")>>

\* line 23
SuccessLine(now, amount) ==
    <<Part("marker", "check mark"), Part("time", Strftime(now)),
      Part("text", "Saldo:"), Part("amount", amount),
      Part("text", "ETH/MATIC")>>

\* line 25
EmptyLine ==
    <<Part("marker", "cross mark"),
      Part("text", "RPC merespon tapi data kosong.")>>

\* line 27
FailedLine(e) ==
    <<Part("marker", "satellite antenna"), Part("text", "Koneksi Gagal:"),
      Part("error", e.msg)>>

\* line 30
BannerLine ==
    <<Part("marker", "rocket"), Part("text", "Bot Monitoring Aktif")>>

\* line 22: int(result, 16) / 10**18, as [raises, neg, m, e]: the double
\* (-1)^neg * m * 2^e
ComputeBalance(result) ==
    LET Failure(cls, msg) ==
            [raises |-> Exc(cls, msg), neg |-> FALSE, m |-> <<>>, e |-> 0]
        Float(p, f) ==
            IF f.overflow
            THEN Failure("OverflowError",
                         "integer division result too large for a float")
            ELSE [raises |-> None, neg |-> p.neg, m |-> f.m, e |-> f.e]
        Divide(p) ==
            IF ~p.ok
            THEN Failure("ValueError",
                         "invalid literal for int() with base 16: '"
                         \o Join(result.s) \o "'")
            ELSE IF p.mag = <<>>
            THEN [raises |-> None, neg |-> FALSE, m |-> <<>>, e |-> 0]
            ELSE Float(p, TrueDiv(p.mag))
    IN  IF result.t # "str"
        THEN Failure("TypeError",
                     "int() can't convert non-string with explicit base")
        ELSE Divide(ParseInt16(result.s))

\* as if the amount printed after a failed poll were zero
Format5fAfterFailure(b) ==
    IF previous = "failed" THEN FixedText(b.neg, <<>>)
    ELSE FixedText(b.neg, Units5(b.m, b.e))

\* f"{balance:.5f}", line 23
Format5f(b) == FixedText(b.neg, Units5(b.m, b.e))

\* lines 19 to 25, the body of the try: the lines it prints, the exception
\* it raises, if any, the local `balance` and the local time it read
TryBody(resp, now) ==
    LET Raise(e) == [lines |-> <<>>, raises |-> e,
                     balance |-> None, now |-> NoTime]
        \* lines 22 and 23
        Show(b) ==
            IF b.raises # None THEN Raise(b.raises)
            ELSE [lines  |-> <<SuccessLine(now, Format5f(b))>>,
                  raises |-> None,
                  balance |-> [neg |-> b.neg, m |-> b.m, e |-> b.e],
                  now |-> now]
        \* lines 21 to 25
        Branch(result) ==
            IF Truthy(result) THEN Show(ComputeBalance(result))
            ELSE [lines |-> <<EmptyLine>>, raises |-> None,
                  balance |-> None, now |-> NoTime]
    IN  IF resp.raises # None THEN Raise(resp.raises)
        ELSE IF resp.body = "text"
        THEN Raise(Exc("JSONDecodeError",
                       "Expecting value: line 1 column 1 (char 0)"))
        ELSE IF resp.body = "array"
        THEN Raise(Exc("AttributeError",
                       "'list' object has no attribute 'get'"))
        ELSE Branch(IF resp.hasResult THEN resp.result ELSE JNull)

\* as if the handler of line 27 printed nothing
get_balance_silent(resp, now) ==
    LET Handle(body) ==
            IF body.raises # None /\ Caught(body.raises)
            THEN [lines |-> body.lines, raises |-> None,
                  balance |-> body.balance, now |-> body.now]
            ELSE body
    IN  Handle(TryBody(resp, now))

\* lines 18 to 27: the try and its handler
get_balance(resp, now) ==
    LET Handle(body) ==
            IF body.raises # None /\ Caught(body.raises)
            THEN [lines |-> body.lines \o <<FailedLine(body.raises)>>,
                  raises |-> None, balance |-> body.balance, now |-> body.now]
            ELSE body
    IN  Handle(TryBody(resp, now))

\* the value of the first part of kind k in a line, None without one
PartOf(line, k) ==
    LET at == {i \in 1..Len(line) : line[i].k = k}
    IN  IF at = {} THEN None
        ELSE line[CHOOSE i \in at : \A j \in at : i <= j].v

Has(line, k) == \E i \in 1..Len(line) : line[i].k = k

\* which of lines 23, 25 and 27 printed the latest line
Outcome(lines) ==
    IF lines = <<>> THEN "none"
    ELSE LET Kind(marker) ==
                 CASE marker = "check mark" -> "success"
                   [] marker = "cross mark" -> "empty"
                   [] marker = "satellite antenna" -> "failed"
                   [] OTHER -> "none"
         IN  Kind(PartOf(lines[Len(lines)], "marker"))

Init ==
    /\ pc = "banner"
    /\ stdout = <<>>
    /\ request = None
    /\ response = None
    /\ balance = None
    /\ clock = NoTime
    /\ latency = NoTime
    /\ sincePost = NoTime
    /\ slept = NoTime
    /\ gap = NoTime
    /\ waited = NoTime
    /\ issued = 0
    /\ previous = "none"
    /\ ref = None

\* as if line 31 ended the loop after a failed poll
LoopWhileNoFailure == Outcome(stdout) # "failed"

\* line 31: while True
LoopCondition == TRUE

\* as if line 33 slept for what is left of the interval
SleepRemainder == SLEEP - latency

\* line 33: time.sleep(10)
SleepSeconds == SLEEP

\* as if a failed poll were retried at once
RetryOnFailure(lines) == IF Outcome(lines) = "failed" THEN "loop" ELSE "sleep"

\* line 33 follows line 32 whatever get_balance printed
AfterGetBalance(lines) == "sleep"

\* line 30
Banner ==
    /\ pc = "banner"
    /\ stdout' = Append(stdout, BannerLine)
    /\ pc' = "loop"
    /\ UNCHANGED <<request, response, balance, clock, latency, sincePost,
                   slept, gap, waited, issued, previous, ref>>

\* line 32 enters get_balance, lines 12 to 19 build the payload and enter
\* requests.post
Call ==
    /\ pc = "loop"
    /\ request' = [url |-> RPC_URL, json |-> payload, timeout |-> TIMEOUT]
    /\ stdout' = <<>>
    /\ response' = None
    /\ balance' = None
    /\ clock' = NoTime
    /\ previous' = Outcome(stdout)
    /\ gap' = sincePost
    /\ waited' = slept
    /\ sincePost' = 0
    /\ issued' = issued + 1
    /\ ref' = IF ref = None THEN None ELSE [ref EXCEPT !.later = TRUE]
    /\ pc' = "post"
    /\ UNCHANGED <<latency, slept>>

\* line 19, timeout=10: a read that times out has waited the whole timeout
TimesOut(resp) == resp.raises # None /\ resp.raises.cls = "ReadTimeout"

\* requests.post returns or raises after lat seconds, and lines 20 to 27
\* run to the end of get_balance; now is the local time line 23 would read
Respond(resp, lat, now) ==
    /\ pc = "post"
    /\ TimesOut(resp) => lat = TIMEOUT
    /\ \E r \in {get_balance(resp, now)} :
           /\ stdout' = stdout \o r.lines
           /\ balance' = r.balance
           /\ clock' = r.now
           /\ pc' = IF r.raises # None THEN "crashed"
                    ELSE AfterGetBalance(r.lines)
    /\ response' = resp
    /\ latency' = lat
    /\ sincePost' = sincePost + lat
    /\ slept' = 0
    /\ gap' = NoTime
    /\ waited' = NoTime
    /\ previous' = "none"
    /\ UNCHANGED <<request, issued, ref>>

\* line 33, then back to line 31
Sleep ==
    /\ pc = "sleep"
    /\ slept' = slept + SleepSeconds
    /\ sincePost' = sincePost + SleepSeconds
    /\ issued' = 0
    /\ pc' = IF LoopCondition THEN "loop" ELSE "exit"
    /\ UNCHANGED <<stdout, request, response, balance, clock, latency, gap,
                   waited, previous, ref>>

\* an observer keeps the poll that has just succeeded, to compare later
\* polls with it
Remember ==
    /\ pc = "sleep"
    /\ Outcome(stdout) = "success"
    /\ ref = None
    /\ ref' = [result |-> response.result,
               amount |-> PartOf(stdout[1], "amount"), later |-> FALSE]
    /\ UNCHANGED <<pc, stdout, request, response, balance, clock, latency,
                   sincePost, slept, gap, waited, issued, previous>>

Next ==
    \/ Banner
    \/ Call
    \/ \E resp \in Responses, lat \in Latencies, now \in WallClock :
          Respond(resp, lat, now)
    \/ Sleep

Spec == Init /\ [][Next]_vars

\* each request returns, and the process is scheduled
SpecLive == Spec /\ WF_vars(Next)

NextRef == Next \/ Remember

\* the process together with the observer
SpecRef == Init /\ [][NextRef]_vars

(***************************************************************************)
(* Properties.                                                             *)
(***************************************************************************)
\* the latest call of get_balance has run to its end
Polled == response # None

\* the `result` the latest response carried
Result == IF response.hasResult THEN response.result ELSE JNull

Amount == PartOf(stdout[1], "amount")

EmptyValues == {JNull, JBool(FALSE), JInt(0), JList(0), JStr(<<>>)}

\* int(v, 16) raises
CannotConvert(v) == v.t # "str" \/ ~ParseInt16(v.s).ok

\* the request failed, the body is not JSON, or a non-empty `result` is no
\* hexadecimal number
FailureCase ==
    \/ response.raises # None
    \/ response.body = "text"
    \/ /\ response.body = "object"
       /\ Result \notin EmptyValues
       /\ CannotConvert(Result)

\* C1: a poll whose request fails, whose body is not JSON or whose
\* (non-empty) `result` cannot be converted from hexadecimal prints the
\* "Koneksi Gagal" line with the error's description, prints no amount and
\* not the empty-data line, and get_balance returns instead of raising.
C1_ConnectionFailed ==
    (Polled /\ FailureCase) =>
        /\ pc # "crashed"
        /\ Len(stdout) = 1
        /\ Outcome(stdout) = "failed"
        /\ stdout[1] # EmptyLine
        /\ ~Has(stdout[1], "amount")
        /\ balance = None
        /\ Has(stdout[1], "error")
        /\ PartOf(stdout[1], "error") # ""
        /\ response.raises # None
              => PartOf(stdout[1], "error") = response.raises.msg

C1_Witness ==
    /\ pc = "sleep"
    /\ Polled
    /\ response.body = "object"
    /\ Result = JStr(HexNotHex)
    /\ Outcome(stdout) = "failed"

Halted == pc \in {"crashed", "exit"}

\* C2: the loop never ends: no outcome halts the process, and, each
\* request returning, a new poll is started again and again.
C2_PollsForever == [](~Halted) /\ []<>(pc = "post") /\ []<>(pc = "sleep")

C2_Witness == pc = "post" /\ previous = "failed"

\* C3: every call of get_balance writes exactly one line, and that line
\* is the success, the empty-data or the failure line.
C3_OneLinePerCall ==
    Polled => /\ Len(stdout) = 1
              /\ Outcome(stdout) \in {"success", "empty", "failed"}

C3_Witness ==
    /\ pc = "sleep"
    /\ response.raises # None
    /\ Len(stdout) = 1
    /\ Outcome(stdout) = "failed"

\* C4: a JSON object whose `result` is missing, null or empty gets the
\* empty-data line: no amount, neither success nor failure, no crash.
C4_EmptyResponse ==
    (/\ Polled
     /\ response.raises = None
     /\ response.body = "object"
     /\ Result \in {JNull, JStr(<<>>), JList(0)})
    => /\ pc # "crashed"
       /\ stdout = <<EmptyLine>>
       /\ Outcome(stdout) = "empty"
       /\ ~Has(stdout[1], "amount")
       /\ balance = None

C4_Witness ==
    /\ pc = "sleep"
    /\ response = Body("object", TRUE, JStr(<<>>))
    /\ stdout = <<EmptyLine>>

\* floor(n / 10^13) and k * 10^13: 10^-5 of a unit is 10^13 wei
Floor13(n) == DivSmall(DivSmall(DivSmall(n, 100000).q, 100000).q, 1000).q
Times13(k) == MulSmall(MulSmall(MulSmall(k, 100000, 0), 100000, 0), 1000, 0)

\* n / 10^18 to 5 fractional digits: the multiples of 10^-5 nearest to it
\* (two of them when n lies half way)
NearestUnits(n) ==
    LET Pick(q, half) == IF half < 0 THEN {q}
                         ELSE IF half > 0 THEN {MulSmall(q, 1, 1)}
                         ELSE {q, MulSmall(q, 1, 1)}
        Near(q) == Pick(q, Cmp(MulSmall(Sub(n, Times13(q)), 2, 0),
                               Times13(<<1>>)))
    IN  Near(Floor13(n))

\* C5: the amount printed is the value of `result` in wei divided by
\* 10^18, to 5 fractional digits; 10^18 wei print as 1.00000 and 1 wei as
\* 0.00000.
C5_ExactAmount ==
    (Polled /\ Outcome(stdout) = "success") =>
        /\ \E p \in {ParseInt16(Result.s)} :
               Amount \in {FixedText(p.neg, u) : u \in NearestUnits(p.mag)}
        /\ Result = JStr(Hex1e18) => Amount = "1.00000"
        /\ Result = JStr(HexOneWei) => Amount = "0.00000"

\* the two values the specification names do print as it says
C5_NamedCases ==
    (Polled /\ Outcome(stdout) = "success") =>
        /\ Result = JStr(Hex1e18) => Amount = "1.00000"
        /\ Result = JStr(HexOneWei) => Amount = "0.00000"

\* C6, as stated: a poll starts exactly SLEEP seconds after the poll
\* before it started, whatever the latency of that poll's request.
C6_FixedPeriod == (pc = "post" /\ gap # NoTime) => gap = SLEEP

\* C6, amended: a poll starts exactly SLEEP seconds after the call before
\* it returned, so the two polls start latency + SLEEP seconds apart.
C6_SleepAfterReturn ==
    (pc = "post" /\ gap # NoTime) => /\ waited = SLEEP
                                     /\ gap = latency + SLEEP

C6_Witness == pc = "post" /\ latency = TIMEOUT /\ gap = TIMEOUT + SLEEP

\* C7: an amount that is printed is never negative.
C7_NonNegative ==
    (Polled /\ Outcome(stdout) = "success") => ~balance.neg

\* C8, as stated: every line of a poll has a marker, a time and either an
\* amount or an error.
C8_EveryLineStamped ==
    Polled => \A i \in 1..Len(stdout) :
                 /\ Has(stdout[i], "marker")
                 /\ Has(stdout[i], "time")
                 /\ Has(stdout[i], "amount") \/ Has(stdout[i], "error")

TwoDigits(v) == DigitChar(v \div 10) \o DigitChar(v % 10)

\* HH:MM:SS of t seconds after midnight
IsClockText(text, t) ==
    /\ t \in 0..(SecondsPerDay - 1)
    /\ text = TwoDigits(t \div 3600) \o ":" \o TwoDigits((t \div 60) % 60)
              \o ":" \o TwoDigits(t % 60)

\* the double b with a sign, its whole part, a point and 5 digits
IsFiveDecimalText(text, b) ==
    \E u \in {DivSmall(Units5(b.m, b.e), 100000)} :
        text = (IF b.neg THEN "-" ELSE "")
               \o (IF u.q = <<>> THEN "0" ELSE DecText(u.q)) \o "."
               \o DigitChar(u.r \div 10000) \o DigitChar((u.r \div 1000) % 10)
               \o DigitChar((u.r \div 100) % 10) \o DigitChar((u.r \div 10) % 10)
               \o DigitChar(u.r % 10)

\* C8, amended: every line of a poll has a marker and either a 5-decimal
\* amount or a description of the error (the fixed empty-data text or the
\* caught error); the success line alone carries an HH:MM:SS time.
C8_LineShape ==
    Polled => \A i \in 1..Len(stdout) :
        LET line == stdout[i]
        IN  /\ Has(line, "marker")
            /\ Outcome(<<line>>) = "success" =>
                 /\ Has(line, "time")
                 /\ IsClockText(PartOf(line, "time"), clock)
                 /\ IsFiveDecimalText(PartOf(line, "amount"), balance)
                 /\ ~Has(line, "error")
            /\ Outcome(<<line>>) = "empty" =>
                 /\ line = EmptyLine
                 /\ ~Has(line, "time") /\ ~Has(line, "amount")
            /\ Outcome(<<line>>) = "failed" =>
                 /\ Has(line, "error")
                 /\ ~Has(line, "time") /\ ~Has(line, "amount")

C8_Witness ==
    /\ pc = "sleep"
    /\ Outcome(stdout) = "success"
    /\ Result = JStr(Hex1e18)
    /\ PartOf(stdout[1], "time") = "23:59:59"
    /\ Amount = "1.00000"

\* C9: an iteration issues one request at most; a request is entered with
\* nothing in flight and nothing printed yet in this call, and, after the
\* first, only when the call before it has printed its line and the whole
\* sleep has passed since it returned, whatever its outcome was.
C9_NoRetryNoOverlap ==
    /\ issued <= 1
    /\ pc = "post" =>
         /\ issued = 1
         /\ response = None
         /\ stdout = <<>>
         /\ gap # NoTime =>
              /\ previous \in {"success", "empty", "failed"}
              /\ waited = SLEEP

C9_Witness == pc = "post" /\ previous = "failed" /\ waited = SLEEP

\* C10: a poll that gets the same `result` as an earlier poll prints the
\* same amount, whatever happened in between.
C10_Idempotent ==
    (/\ pc = "sleep"
     /\ Outcome(stdout) = "success"
     /\ ref # None
     /\ ref.result = Result)
    => Amount = ref.amount

C10_Witness ==
    /\ pc = "sleep"
    /\ Outcome(stdout) = "success"
    /\ ref # None
    /\ ref.later
    /\ ref.result = Result
    /\ Result = JStr(Hex1e18)

====
